---- MODULE Spec2Model ----
(***************************************************************************)
(* Model of the estimate-salary-stream edge function                       *)
(* (supabase/functions/estimate-salary-stream/index.ts): the serve handler,*)
(* estimateSalaryStream and the TransformStream that adapts the completion *)
(* service's event stream; of the transform of estimate-salary; of the     *)
(* React client (JobAnalyisCore.jsx); and of the stream consumer and the   *)
(* payload parser, which the specification describes.                      *)
(*                                                                         *)
(* Text is a sequence of tokens.  A token is one character, except that    *)
(* the fixed literals the code matches on are single tokens: the six       *)
(* characters "data: ", the sentinel payload "[DONE]", the JSON text       *)
(* around a content fragment, and the two-character JSON escape of a line  *)
(* feed.  String operations are defined on token sequences exactly as the  *)
(* JavaScript ones are on characters.                                      *)
(***************************************************************************)
EXTENDS Integers, Sequences, FiniteSets, TLC

\* ------------------------------------------------------------------ bounds

\* Total number of upstream lines (frames) the completion service sends
\* during one request, over all of its transport chunks.
MaxUpstreamLines == 3

\* Fetches the client starts (extractions and estimations together).
MaxClientRequests == 4

\* Length of the payload text the consumer accumulates in its buffer.
MaxBufferLen == 8

\* ------------------------------------------------------------------ tokens

LF == "\n"
DataPrefix == <<"data: ">>
DoneSentinel == <<"data: ", "[DONE]">>

\* JSON text of a content frame: JsonOpen, the escaped fragment, JsonClose.
JsonOpen == "{\"choices\":[{\"delta\":{\"content\":\""
JsonClose == "\"}}]}"
\* The JSON escape of a line feed inside a string (backslash, n).
EscLF == "\\n"
JsonNull == "null"
JsonEmptyChoices == "{\"choices\":[]}"
JsonRoleOnly == "{\"choices\":[{\"delta\":{\"role\":\"assistant\"}}]}"

\* Characters that may stand unescaped inside a JSON string.
PlainChars == {"k", "1", ";", " "}
Whitespace == {" ", LF}

\* ------------------------------------------------------- string operations

RECURSIVE Concat(_)
\* Array.prototype.join('') of a sequence of texts.
Concat(ss) == IF ss = <<>> THEN <<>> ELSE Head(ss) \o Concat(Tail(ss))

\* String.prototype.startsWith
StartsWith(s, p) == Len(s) >= Len(p) /\ SubSeq(s, 1, Len(p)) = p

\* String.prototype.includes
Includes(s, p) == \E i \in 1..(Len(s) - Len(p) + 1) : SubSeq(s, i, i + Len(p) - 1) = p

\* String.prototype.slice(n): drop the first n tokens.
Slice(s, n) == SubSeq(s, n + 1, Len(s))

\* line.trim() !== ''
NotBlank(s) == \E i \in 1..Len(s) : s[i] \notin Whitespace

RECURSIVE SplitFrom(_, _, _)
SplitFrom(s, i, cur) ==
    IF i > Len(s) THEN <<cur>>
    ELSE IF s[i] = LF THEN <<cur>> \o SplitFrom(s, i + 1, <<>>)
    ELSE SplitFrom(s, i + 1, Append(cur, s[i]))

\* String.prototype.split('\n')
SplitLines(s) == SplitFrom(s, 1, <<>>)

RECURSIVE NonBlankLines(_)
\* lines.filter(line => line.trim() !== '')
NonBlankLines(ls) ==
    IF ls = <<>> THEN <<>>
    ELSE IF NotBlank(Head(ls)) THEN <<Head(ls)>> \o NonBlankLines(Tail(ls))
    ELSE NonBlankLines(Tail(ls))

\* -------------------------------------------------------------- JSON.parse

RECURSIVE Unescape(_)
\* The string value of the text between the quotes of a JSON string.
Unescape(s) ==
    IF s = <<>> THEN <<>>
    ELSE <<IF Head(s) = EscLF THEN LF ELSE Head(s)>> \o Unescape(Tail(s))

RECURSIVE Escape(_)
\* JSON.stringify of a string value, without the quotes.
Escape(s) ==
    IF s = <<>> THEN <<>>
    ELSE <<IF Head(s) = LF THEN EscLF ELSE Head(s)>> \o Escape(Tail(s))

IsJsonStringBody(s) == \A i \in 1..Len(s) : s[i] \in PlainChars \cup {EscLF}

\* The JSON text around an error message: JSON.stringify({ error: message }).
ErrorOpen == "{\"error\":\""
ErrorClose == "\"}"

\* hasChoices: the parsed value is an object with a choices property.
Threw == [threw |-> TRUE, isNull |-> FALSE, hasChoices |-> FALSE, choices |-> <<>>]
Parsed(isNull, choices) ==
    [threw |-> FALSE, isNull |-> isNull, hasChoices |-> ~isNull, choices |-> choices]
\* An object that has no choices property, such as { error: message }.
ParsedNoChoices == [threw |-> FALSE, isNull |-> FALSE, hasChoices |-> FALSE, choices |-> <<>>]

\* JSON.parse(jsonStr): threw is a SyntaxError; otherwise the parsed value,
\* null, an object with a choices array, or an object with an error string.
JSONparse(s) ==
    IF s = <<JsonNull>> THEN Parsed(TRUE, <<>>)
    ELSE IF /\ Len(s) >= 2
            /\ s[1] = ErrorOpen
            /\ s[Len(s)] = ErrorClose
            /\ \A i \in 2..(Len(s) - 1) : s[i] \notin {LF, ErrorOpen, ErrorClose}
        THEN ParsedNoChoices
    ELSE IF s = <<JsonEmptyChoices>> THEN Parsed(FALSE, <<>>)
    ELSE IF s = <<JsonRoleOnly>>
        THEN Parsed(FALSE, <<[hasDelta |-> TRUE, hasContent |-> FALSE, content |-> <<>>]>>)
    ELSE IF /\ Len(s) >= 2
            /\ s[1] = JsonOpen
            /\ s[Len(s)] = JsonClose
            /\ IsJsonStringBody(SubSeq(s, 2, Len(s) - 1))
        THEN Parsed(FALSE, <<[hasDelta |-> TRUE, hasContent |-> TRUE,
                              content |-> Unescape(SubSeq(s, 2, Len(s) - 1))]>>)
    ELSE Threw

NoContent == [threw |-> FALSE, has |-> FALSE, content |-> <<>>]

\* parsedData.choices && parsedData.choices[0] && parsedData.choices[0].delta
\*   && parsedData.choices[0].delta.content
\* threw: reading .choices of null is a TypeError; has: the chain is truthy
\* (an empty string is falsy).
DeltaContent(v) ==
    IF v.isNull THEN [threw |-> TRUE, has |-> FALSE, content |-> <<>>]
    ELSE IF v.choices = <<>> THEN NoContent
    ELSE IF ~v.choices[1].hasDelta \/ ~v.choices[1].hasContent THEN NoContent
    ELSE IF v.choices[1].content = <<>> THEN NoContent
    ELSE [threw |-> FALSE, has |-> TRUE, content |-> v.choices[1].content]

\* ------------------------------------------------------- the stream adapter

\* `data: ${content}\n\n`
FragmentBytes(content) == DataPrefix \o content \o <<LF, LF>>

\* One enqueued chunk of the response body.  kind and src are history: what
\* the event is and the upstream line (chunk number, line number) it is from.
FragmentEvent(content, src) ==
    [kind |-> "fragment", bytes |-> FragmentBytes(content), src |-> src]

\* A loop body that asks only whether the delta has a content field, and so
\* enqueues an event for an empty fragment too.
ProcessLineAnyContent(line, src) ==
    IF ~StartsWith(line, DataPrefix) THEN <<>>
    ELSE LET parsedData == JSONparse(Slice(line, Len(DataPrefix)))
         IN  IF parsedData.threw \/ parsedData.isNull \/ parsedData.choices = <<>> THEN <<>>
             ELSE IF ~parsedData.choices[1].hasContent THEN <<>>
             ELSE <<FragmentEvent(parsedData.choices[1].content, src)>>

\* The body of the for loop for one line: the events it enqueues.
ProcessLine(line, src) ==
    IF ~StartsWith(line, DataPrefix) THEN <<>>
    ELSE LET parsedData == JSONparse(Slice(line, Len(DataPrefix)))
         IN  IF parsedData.threw THEN <<>>
             ELSE LET c == DeltaContent(parsedData)
                  IN  IF c.threw \/ ~c.has THEN <<>>
                      ELSE <<FragmentEvent(c.content, src)>>

RECURSIVE ProcessLinesLastFirst(_, _, _)
\* A loop that runs over the lines from the last to the first.
ProcessLinesLastFirst(lines, i, chunkNo) ==
    IF i > Len(lines) THEN <<>>
    ELSE ProcessLinesLastFirst(lines, i + 1, chunkNo) \o ProcessLine(lines[i], <<chunkNo, i>>)

RECURSIVE ProcessLines(_, _, _)
\* for (const line of lines) { ... }
ProcessLines(lines, i, chunkNo) ==
    IF i > Len(lines) THEN <<>>
    ELSE ProcessLine(lines[i], <<chunkNo, i>>) \o ProcessLines(lines, i + 1, chunkNo)

\* transformStream.transform(chunk, controller): the events enqueued for one
\* upstream chunk.
Transform(text, chunkNo) ==
    IF Includes(text, DoneSentinel) THEN <<>>
    ELSE ProcessLines(NonBlankLines(SplitLines(text)), 1, chunkNo)

\* ------------------------------------------- the transform of estimate-salary

\* parsedData.choices && parsedData.choices[0].delta
\*   && parsedData.choices[0].delta.content
\* threw: reading .choices of null, or .delta of the missing first choice,
\* is a TypeError.
DeltaContentLegacy(v) ==
    IF v.isNull THEN [threw |-> TRUE, has |-> FALSE, content |-> <<>>]
    ELSE IF ~v.hasChoices THEN NoContent
    ELSE IF v.choices = <<>> THEN [threw |-> TRUE, has |-> FALSE, content |-> <<>>]
    ELSE IF ~v.choices[1].hasDelta \/ ~v.choices[1].hasContent THEN NoContent
    ELSE IF v.choices[1].content = <<>> THEN NoContent
    ELSE [threw |-> FALSE, has |-> TRUE, content |-> v.choices[1].content]

\* `data: ${line.slice(6)}\n\n`, enqueued by the catch block.
PassThroughEvent(line, src) ==
    [kind |-> "raw", bytes |-> DataPrefix \o Slice(line, Len(DataPrefix)) \o <<LF, LF>>,
     src |-> src]

\* The body of the for loop of estimate-salary for one line.
ProcessLineLegacy(line, src) ==
    IF ~StartsWith(line, DataPrefix) THEN <<>>
    ELSE LET parsedData == JSONparse(Slice(line, Len(DataPrefix)))
         IN  IF parsedData.threw THEN <<PassThroughEvent(line, src)>>
             ELSE LET c == DeltaContentLegacy(parsedData)
                  IN  IF c.threw THEN <<PassThroughEvent(line, src)>>
                      ELSE IF ~c.has THEN <<>>
                      ELSE <<FragmentEvent(c.content, src)>>

RECURSIVE ProcessLinesLegacy(_, _, _)
ProcessLinesLegacy(lines, i, chunkNo) ==
    IF i > Len(lines) THEN <<>>
    ELSE ProcessLineLegacy(lines[i], <<chunkNo, i>>) \o ProcessLinesLegacy(lines, i + 1, chunkNo)

\* transformStream.transform(chunk, controller) of estimate-salary.
TransformLegacy(text, chunkNo) ==
    IF Includes(text, DoneSentinel) THEN <<>>
    ELSE ProcessLinesLegacy(NonBlankLines(SplitLines(text)), 1, chunkNo)

\* ------------------------------------------------------------ the responses

\* 'Access-Control-Allow-Origin' and 'Access-Control-Allow-Headers'
CorsHeaders ==
    [origin |-> "*",
     allowHeaders |-> {"authorization", "x-client-info", "apikey", "content-type"}]
NoHeaders == [origin |-> "", allowHeaders |-> {}]

NoResponse ==
    [status |-> 0, contentType |-> "", cors |-> NoHeaders, error |-> <<>>, body |-> "none"]

\* new Response('ok', { headers: corsHeaders })
PreflightResponse ==
    [status |-> 200, contentType |-> "text/plain", cors |-> CorsHeaders,
     error |-> <<>>, body |-> "ok"]

\* An error Response whose headers leave out corsHeaders.
JsonErrorResponseNoCors(status, message) ==
    [status |-> status, contentType |-> "application/json", cors |-> NoHeaders,
     error |-> message, body |-> "json"]

\* new Response(JSON.stringify({ error }), { status, headers: { "Content-Type":
\* "application/json", ...corsHeaders } })
JsonErrorResponse(status, message) ==
    [status |-> status, contentType |-> "application/json", cors |-> CorsHeaders,
     error |-> message, body |-> "json"]

\* new Response(openAIStream, { headers: { 'Content-Type': 'text/event-stream', ... } })
StreamResponse ==
    [status |-> 200, contentType |-> "text/event-stream", cors |-> CorsHeaders,
     error |-> <<>>, body |-> "stream"]

JobDataRequired == <<"Job data is required">>
MissingKey == <<"OPENAI_API_KEY", " environment variable not set">>
\* The runtime's messages for a body that is no JSON, for destructuring null,
\* and for a fetch that rejects.
BodySyntaxError == <<"Unexpected end of JSON input">>
DestructureNull ==
    <<"Cannot destructure property 'jobData' of '(intermediate value)' as it is null.">>
FetchFailed == <<"error sending request">>

\* `OpenAI API error: ${response.status} - ${errorText}`
ApiErrorMessage(status, errorText) == <<"OpenAI API error: ", status, " - ">> \o errorText

\* `data: ${JSON.stringify({ error: error.message })}\n\n`
ErrorBytes(message) ==
    DataPrefix \o <<"{\"error\":\"">> \o Escape(message) \o <<"\"}">> \o <<LF, LF>>

ErrorEvent(message) == [kind |-> "error", bytes |-> ErrorBytes(message), src |-> <<0, 0>>]

\* A catch block that enqueues the error event and forgets controller.close().
CatchStreamLeftOpen(message) == [events |-> <<ErrorEvent(message)>>, state |-> "open"]

\* The catch block of estimateSalaryStream: a stream that holds one error
\* event and is closed.
CatchStream(message) == [events |-> <<ErrorEvent(message)>>, state |-> "closed"]

\* --------------------------------------------------------------- the inputs

Methods == {"OPTIONS", "POST"}

\* The request body: no JSON at all, the JSON value null, an object without
\* jobData, objects whose jobData is falsy, an object with a job record.
Bodies == {"not_json", "null", "{}", "{jobData:null}", "{jobData:''}", "{jobData:{...}}"}

\* await req.json() resolves
BodyParses(body) == body # "not_json"
\* const { jobData } = <parsed body> does not throw
BodyDestructures(body) == body # "null"
\* !jobData is false
JobDataTruthy(body) == body = "{jobData:{...}}"

UpstreamStatuses == {"401", "429"}
UpstreamErrorTexts == {<<"quota">>}

Fragments == {<<"1">>, <<"k", LF>>}

\* A content frame as the completion service writes it.
ContentLine(fragment) == DataPrefix \o <<JsonOpen>> \o Escape(fragment) \o <<JsonClose>>
ContentLines == {ContentLine(f) : f \in Fragments}
DoneLine == DoneSentinel
\* A frame cut off inside its JSON text.
TruncatedLine == DataPrefix \o <<JsonOpen, "k">>
NullLine == DataPrefix \o <<JsonNull>>
EmptyChoicesLine == DataPrefix \o <<JsonEmptyChoices>>
RoleLine == DataPrefix \o <<JsonRoleOnly>>
EmptyContentLine == DataPrefix \o <<JsonOpen, JsonClose>>
\* A line without the data prefix (the tail of a frame cut in two).
BareLine == <<"k", JsonClose>>

MalformedLines == {TruncatedLine, NullLine, EmptyChoicesLine}
UpstreamLines ==
    ContentLines \cup MalformedLines \cup {DoneLine, RoleLine, EmptyContentLine, BareLine}

RECURSIVE ChunkText(_)
\* The text of a transport chunk holding these lines, each ended by a blank
\* line as the completion service frames them.
ChunkText(lines) ==
    IF lines = <<>> THEN <<>>
    ELSE Head(lines) \o <<LF, LF>> \o ChunkText(Tail(lines))

RECURSIVE Cost(_)
\* Lines received so far; a chunk without lines counts as one.
Cost(chunks) ==
    IF chunks = <<>> THEN 0
    ELSE (IF Len(Head(chunks)) = 0 THEN 1 ELSE Len(Head(chunks))) + Cost(Tail(chunks))

LineLists(S, n) == UNION {[1..k -> S] : k \in 0..n}

\* ------------------------------------------------------- the payload parser

Delimiter == <<";", ";">>

RECURSIVE SplitOn(_, _, _)
\* String.prototype.split(d), from position i with the segment cur begun.
SplitOn(s, d, cur) ==
    IF s = <<>> THEN <<cur>>
    ELSE IF StartsWith(s, d) THEN <<cur>> \o SplitOn(Slice(s, Len(d)), d, <<>>)
    ELSE SplitOn(Tail(s), d, Append(cur, Head(s)))

RECURSIVE TrimStart(_)
TrimStart(s) ==
    IF s # <<>> /\ Head(s) \in Whitespace THEN TrimStart(Tail(s)) ELSE s

RECURSIVE TrimEnd(_)
TrimEnd(s) ==
    IF s # <<>> /\ s[Len(s)] \in Whitespace THEN TrimEnd(SubSeq(s, 1, Len(s) - 1)) ELSE s

\* String.prototype.trim
Trim(s) == TrimEnd(TrimStart(s))

\* The buffer split on the delimiter into trimmed segments.
Segments(text) ==
    LET parts == SplitOn(text, Delimiter, <<>>)
    IN  [i \in 1..Len(parts) |-> Trim(parts[i])]

\* A field: unresolved, or populated with a text.
Field(segments, i) ==
    IF i <= Len(segments) THEN [set |-> TRUE, text |-> segments[i]]
    ELSE [set |-> FALSE, text |-> <<>>]

\* The result in which no field is resolved.
Unresolved ==
    [salaryRange |-> Field(<<>>, 1), confidenceLevel |-> Field(<<>>, 2),
     reasoning |-> Field(<<>>, 3)]

\* A parser that gives up on a buffer with more than three segments.
ParseAtMostThree(text) ==
    IF Trim(text) = <<>> \/ Len(Segments(text)) > 3 THEN Unresolved
    ELSE [salaryRange |-> Field(Segments(text), 1),
          confidenceLevel |-> Field(Segments(text), 2),
          reasoning |-> Field(Segments(text), 3)]

\* A parser that splits on a single semicolon.
ParseOnSemicolon(text) ==
    LET parts == SplitOn(text, <<";">>, <<>>)
        segs == [i \in 1..Len(parts) |-> Trim(parts[i])]
    IN  IF Trim(text) = <<>> THEN Unresolved
        ELSE [salaryRange |-> Field(segs, 1), confidenceLevel |-> Field(segs, 2),
              reasoning |-> Field(segs, 3)]

\* The SalaryEstimate of a buffer: field i is populated if segment i exists;
\* an empty or whitespace-only buffer resolves nothing.
Parse(text) ==
    IF Trim(text) = <<>> THEN Unresolved
    ELSE [salaryRange |-> Field(Segments(text), 1),
          confidenceLevel |-> Field(Segments(text), 2),
          reasoning |-> Field(Segments(text), 3)]

\* ----------------------------------------------------------------- the state

VARIABLES
    method,      \* the request's method
    body,        \* the request's body
    apiKey,      \* whether OPENAI_API_KEY is set in the environment
    pc,          \* where the handler is: start, fetching, streaming, done
    resp,        \* the Response the handler returned
    fetchCalls,  \* calls of fetch to the completion service
    upStatus,    \* how the completion service answered: none, ok, notok, rejected
    upState,     \* the upstream connection: none, pending, open, closed, errored, cancelled
    upChunks,    \* the chunks read from the upstream body, each a list of lines
    out,         \* the events enqueued on the response body
    outState,    \* the response body: none, open, closed, errored, cancelled
    aborted,     \* abortController.signal.aborted
    clientGone,  \* the client has disconnected
    wire,        \* response bytes the client has not read yet
    buffer,      \* the consumer's accumulated text
    estimate,    \* the SalaryEstimate parsed from the buffer
    peer,        \* a second request relayed at the same time
    jobData,         \* client state: the extracted job, NullJob for null
    salaryEstimate,  \* client state: the estimate shown
    isLoading,       \* client state: an extraction is running
    isEstimating,    \* client state: an estimation is running
    error,           \* client state: the message shown
    pending,         \* the client's fetches that have not settled
    started,         \* the number of fetches the client has started
    last             \* history: the client step taken last

clientVars ==
    <<jobData, salaryEstimate, isLoading, isEstimating, error, pending, started, last>>

\* What the handler of one request never touches.
elsewhere == <<estimate, peer, clientVars>>

vars == <<method, body, apiKey, pc, resp, fetchCalls, upStatus, upState, upChunks,
          out, outState, aborted, clientGone, wire, buffer, estimate, peer,
          clientVars>>

\* No second request.
NoPeer ==
    [pc |-> "none", upStatus |-> "none", upState |-> "none", upChunks |-> <<>>,
     out |-> <<>>, outState |-> "none"]

\* useState(null)
NullJob == 0
NoEstimate == [present |-> FALSE, job |-> NullJob, req |-> 0]
NoStep == [act |-> "none", req |-> 0, msg |-> "", jobBefore |-> NullJob]

\* The component as mounted: useState('') / (null) / (false), nothing fetched.
ClientMounted ==
    /\ jobData = NullJob
    /\ salaryEstimate = NoEstimate
    /\ isLoading = FALSE
    /\ isEstimating = FALSE
    /\ error = ""
    /\ pending = {}
    /\ started = 0
    /\ last = NoStep

\* Nothing beside the one request.
NothingElse ==
    /\ estimate = Unresolved
    /\ peer = NoPeer
    /\ ClientMounted

Init ==
    /\ method \in Methods
    /\ body \in Bodies
    /\ apiKey \in BOOLEAN
    /\ pc = "start"
    /\ resp = NoResponse
    /\ fetchCalls = 0
    /\ upStatus = "none"
    /\ upState = "none"
    /\ upChunks = <<>>
    /\ out = <<>>
    /\ outState = "none"
    /\ aborted = FALSE
    /\ clientGone = FALSE
    /\ wire = <<>>
    /\ buffer = <<>>
    /\ NothingElse

\* -------------------------------------------------------------- the handler

\* A handler without the check of jobData.
ServeNoJobDataCheck(m, b, key) ==
    IF m = "OPTIONS" THEN [fetch |-> FALSE, resp |-> PreflightResponse]
    ELSE IF ~BodyParses(b) THEN [fetch |-> FALSE, resp |-> JsonErrorResponse(500, BodySyntaxError)]
    ELSE IF ~BodyDestructures(b) THEN [fetch |-> FALSE, resp |-> JsonErrorResponse(500, DestructureNull)]
    ELSE IF ~key THEN [fetch |-> FALSE, resp |-> JsonErrorResponse(500, MissingKey)]
    ELSE [fetch |-> TRUE, resp |-> NoResponse]

\* A handler whose estimateSalaryStream does not check the credential.
ServeNoKeyCheck(m, b, key) ==
    IF m = "OPTIONS" THEN [fetch |-> FALSE, resp |-> PreflightResponse]
    ELSE IF ~BodyParses(b) THEN [fetch |-> FALSE, resp |-> JsonErrorResponse(500, BodySyntaxError)]
    ELSE IF ~BodyDestructures(b) THEN [fetch |-> FALSE, resp |-> JsonErrorResponse(500, DestructureNull)]
    ELSE IF ~JobDataTruthy(b) THEN [fetch |-> FALSE, resp |-> JsonErrorResponse(400, JobDataRequired)]
    ELSE [fetch |-> TRUE, resp |-> NoResponse]

\* The serve handler up to the call of fetch: the Response it returns, or
\* fetch = TRUE when it goes on to call the completion service.
Serve(m, b, key) ==
    IF m = "OPTIONS" THEN [fetch |-> FALSE, resp |-> PreflightResponse]
    ELSE IF ~BodyParses(b) THEN [fetch |-> FALSE, resp |-> JsonErrorResponse(500, BodySyntaxError)]
    ELSE IF ~BodyDestructures(b) THEN [fetch |-> FALSE, resp |-> JsonErrorResponse(500, DestructureNull)]
    ELSE IF ~JobDataTruthy(b) THEN [fetch |-> FALSE, resp |-> JsonErrorResponse(400, JobDataRequired)]
    ELSE IF ~key THEN [fetch |-> FALSE, resp |-> JsonErrorResponse(500, MissingKey)]
    ELSE [fetch |-> TRUE, resp |-> NoResponse]

HandleRequest ==
    /\ pc = "start"
    /\ LET r == Serve(method, body, apiKey)
       IN  IF r.fetch
           THEN /\ pc' = "fetching"
                /\ fetchCalls' = fetchCalls + 1
                /\ upState' = "pending"
                /\ resp' = resp
           ELSE /\ pc' = "done"
                /\ resp' = r.resp
                /\ UNCHANGED <<fetchCalls, upState>>
    /\ UNCHANGED elsewhere
    /\ UNCHANGED <<method, body, apiKey, upStatus, upChunks, out, outState, aborted,
                   clientGone, wire, buffer>>

\* What estimateSalaryStream returns when its try block throws with this
\* message, and the handler's Response around it.
Caught(message) ==
    /\ resp' = StreamResponse
    /\ out' = CatchStream(message).events
    /\ outState' = CatchStream(message).state
    /\ wire' = Concat([i \in 1..Len(CatchStream(message).events) |->
                          CatchStream(message).events[i].bytes])
    /\ pc' = "done"

\* A fetch that is tried again after it rejects.
FetchRejectsRetries ==
    /\ pc = "fetching"
    /\ fetchCalls < 2
    /\ fetchCalls' = fetchCalls + 1
    /\ UNCHANGED elsewhere
    /\ UNCHANGED <<method, body, apiKey, pc, resp, upStatus, upState, upChunks, out, outState,
                   aborted, clientGone, wire, buffer>>

\* fetch rejects: the network failed.
FetchRejects ==
    /\ pc = "fetching"
    /\ upStatus' = "rejected"
    /\ upState' = "errored"
    /\ Caught(FetchFailed)
    /\ UNCHANGED elsewhere
    /\ UNCHANGED <<method, body, apiKey, fetchCalls, upChunks, aborted, clientGone, buffer>>

\* fetch resolves with a status that is not ok.
FetchNotOk ==
    /\ pc = "fetching"
    /\ \E status \in UpstreamStatuses, errorText \in UpstreamErrorTexts :
           Caught(ApiErrorMessage(status, errorText))
    /\ upStatus' = "notok"
    /\ upState' = "closed"
    /\ UNCHANGED elsewhere
    /\ UNCHANGED <<method, body, apiKey, fetchCalls, upChunks, aborted, clientGone, buffer>>

\* fetch resolves ok: the handler returns the upstream body piped through
\* the transform.  A client that has gone cannot take the response: the
\* runtime cancels its body, and the pipe cancels the upstream body.
FetchOk ==
    /\ pc = "fetching"
    /\ upStatus' = "ok"
    /\ resp' = StreamResponse
    /\ IF clientGone
       THEN pc' = "done" /\ outState' = "cancelled" /\ upState' = "cancelled"
       ELSE pc' = "streaming" /\ outState' = "open" /\ upState' = "open"
    /\ UNCHANGED elsewhere
    /\ UNCHANGED <<method, body, apiKey, fetchCalls, upChunks, out, aborted, clientGone,
                   wire, buffer>>

\* A transform that terminates the response when it meets the sentinel.
DeliverEndsAtDone(lines) ==
    /\ pc = "streaming"
    /\ upState = "open"
    /\ Cost(Append(upChunks, lines)) <= MaxUpstreamLines
    /\ LET events == Transform(ChunkText(lines), Len(upChunks) + 1)
       IN  /\ out' = out \o events
           /\ wire' = wire \o Concat([i \in 1..Len(events) |-> events[i].bytes])
    /\ upChunks' = Append(upChunks, lines)
    /\ IF Includes(ChunkText(lines), DoneSentinel)
       THEN pc' = "done" /\ outState' = "closed"
       ELSE UNCHANGED <<pc, outState>>
    /\ UNCHANGED elsewhere
    /\ UNCHANGED <<method, body, apiKey, resp, fetchCalls, upStatus, upState,
                   aborted, clientGone, buffer>>

\* A transform that keeps the unfinished last line of a chunk and puts it in
\* front of the next chunk.
DeliverJoinsSplitFrame(lines) ==
    /\ pc = "streaming"
    /\ upState = "open"
    /\ Cost(Append(upChunks, lines)) <= MaxUpstreamLines
    /\ LET held == IF /\ upChunks # <<>>
                      /\ upChunks[Len(upChunks)] # <<>>
                      /\ upChunks[Len(upChunks)][Len(upChunks[Len(upChunks)])] = TruncatedLine
                      /\ lines # <<>>
                   THEN TruncatedLine ELSE <<>>
           events == Transform(held \o ChunkText(lines), Len(upChunks) + 1)
       IN  /\ out' = out \o events
           /\ wire' = wire \o Concat([i \in 1..Len(events) |-> events[i].bytes])
    /\ upChunks' = Append(upChunks, lines)
    /\ UNCHANGED elsewhere
    /\ UNCHANGED <<method, body, apiKey, pc, resp, fetchCalls, upStatus, upState, outState,
                   aborted, clientGone, buffer>>

\* The pipe hands one upstream chunk to transform, which enqueues its events.
Deliver(lines) ==
    /\ pc = "streaming"
    /\ upState = "open"
    /\ Cost(Append(upChunks, lines)) <= MaxUpstreamLines
    /\ LET events == Transform(ChunkText(lines), Len(upChunks) + 1)
       IN  /\ out' = out \o events
           /\ wire' = wire \o Concat([i \in 1..Len(events) |-> events[i].bytes])
    /\ upChunks' = Append(upChunks, lines)
    /\ UNCHANGED elsewhere
    /\ UNCHANGED <<method, body, apiKey, pc, resp, fetchCalls, upStatus, upState, outState,
                   aborted, clientGone, buffer>>

UpstreamChunk ==
    \E lines \in LineLists(UpstreamLines, MaxUpstreamLines - Cost(upChunks)) : Deliver(lines)

\* The upstream body ends: the pipe closes the response body.
UpstreamClose ==
    /\ pc = "streaming"
    /\ upState = "open"
    /\ upState' = "closed"
    /\ outState' = "closed"
    /\ pc' = "done"
    /\ UNCHANGED elsewhere
    /\ UNCHANGED <<method, body, apiKey, resp, fetchCalls, upStatus, upChunks, out, aborted,
                   clientGone, wire, buffer>>

\* The upstream body errors: the pipe errors the response body.
UpstreamError ==
    /\ pc = "streaming"
    /\ upState = "open"
    /\ upState' = "errored"
    /\ outState' = "errored"
    /\ pc' = "done"
    /\ UNCHANGED elsewhere
    /\ UNCHANGED <<method, body, apiKey, resp, fetchCalls, upStatus, upChunks, out, aborted,
                   clientGone, wire, buffer>>

\* The client goes away.  While the response streams, the runtime cancels
\* the response body and the pipe cancels the upstream body.  Nothing calls
\* abortController.abort().
ClientDisconnect ==
    /\ ~clientGone
    /\ pc \in {"fetching", "streaming"}
    /\ clientGone' = TRUE
    /\ IF pc = "streaming"
       THEN pc' = "done" /\ outState' = "cancelled" /\ upState' = "cancelled"
       ELSE UNCHANGED <<pc, outState, upState>>
    /\ UNCHANGED elsewhere
    /\ UNCHANGED <<method, body, apiKey, resp, fetchCalls, upStatus, upChunks, out, aborted,
                   wire, buffer>>

Next ==
    \/ HandleRequest
    \/ FetchRejects
    \/ FetchNotOk
    \/ FetchOk
    \/ UpstreamChunk
    \/ UpstreamClose
    \/ UpstreamError
    \/ ClientDisconnect

Spec == Init /\ [][Next]_vars

\* ------------------------------------------------------------- the consumer

RECURSIVE DataFragments(_)
\* The lines that begin with the data prefix, the prefix stripped, appended
\* to each other.
DataFragments(lines) ==
    IF lines = <<>> THEN <<>>
    ELSE (IF StartsWith(Head(lines), DataPrefix)
          THEN Slice(Head(lines), Len(DataPrefix)) ELSE <<>>) \o DataFragments(Tail(lines))

\* What the consumer appends to its buffer for one chunk it reads.
ConsumeChunk(text) == DataFragments(SplitLines(text))

\* The client reads the next n bytes of the response as one chunk.
ConsumerRead ==
    /\ wire # <<>>
    /\ \E n \in 1..Len(wire) :
           /\ buffer' = buffer \o ConsumeChunk(SubSeq(wire, 1, n))
           /\ wire' = Slice(wire, n)
           /\ estimate' = Parse(buffer \o ConsumeChunk(SubSeq(wire, 1, n)))
    /\ UNCHANGED <<peer, clientVars>>
    /\ UNCHANGED <<method, body, apiKey, pc, resp, fetchCalls, upStatus, upState, upChunks,
                   out, outState, aborted, clientGone>>

\* The completion service sends a chunk of content frames.
ContentChunk ==
    \E lines \in LineLists(ContentLines, MaxUpstreamLines - Cost(upChunks)) : Deliver(lines)

\* A request that has reached the streaming response, nothing received yet.
InitConsumer ==
    /\ method = "POST"
    /\ body = "{jobData:{...}}"
    /\ apiKey = TRUE
    /\ pc = "streaming"
    /\ resp = StreamResponse
    /\ fetchCalls = 1
    /\ upStatus = "ok"
    /\ upState = "open"
    /\ upChunks = <<>>
    /\ out = <<>>
    /\ outState = "open"
    /\ aborted = FALSE
    /\ clientGone = FALSE
    /\ wire = <<>>
    /\ buffer = <<>>
    /\ NothingElse

NextConsumer ==
    \/ ContentChunk
    \/ ConsumerRead
    \/ UpstreamClose

SpecConsumer == InitConsumer /\ [][NextConsumer]_vars

\* ------------------------------------------------ the estimate-salary handler

\* estimate-salary: its serve handler up to the call of fetch, the pipe and
\* the runtime are those of estimate-salary-stream (HandleRequest, FetchOk,
\* UpstreamClose, UpstreamError); estimateSalaryStream returns the raw
\* stream, the upstream body or the catch block's, and the handler pipes it
\* through its transform.

\* The catch block's stream piped through the handler's transform: the
\* stream's one chunk is transformed, and the response closes when the
\* stream has closed.
LegacyCaught(message) ==
    LET chunk == Concat([i \in 1..Len(CatchStream(message).events) |->
                            CatchStream(message).events[i].bytes])
        events == TransformLegacy(chunk, 1)
    IN  /\ resp' = StreamResponse
        /\ out' = events
        /\ outState' = CatchStream(message).state
        /\ wire' = Concat([i \in 1..Len(events) |-> events[i].bytes])
        /\ pc' = "done"

\* fetch rejects.
LegacyFetchRejects ==
    /\ pc = "fetching"
    /\ upStatus' = "rejected"
    /\ upState' = "errored"
    /\ LegacyCaught(FetchFailed)
    /\ UNCHANGED elsewhere
    /\ UNCHANGED <<method, body, apiKey, fetchCalls, upChunks, aborted, clientGone, buffer>>

\* fetch resolves with a status that is not ok.
LegacyFetchNotOk ==
    /\ pc = "fetching"
    /\ \E status \in UpstreamStatuses, errorText \in UpstreamErrorTexts :
           LegacyCaught(ApiErrorMessage(status, errorText))
    /\ upStatus' = "notok"
    /\ upState' = "closed"
    /\ UNCHANGED elsewhere
    /\ UNCHANGED <<method, body, apiKey, fetchCalls, upChunks, aborted, clientGone, buffer>>

\* The pipe hands one upstream chunk to the handler's transform.
LegacyDeliver(lines) ==
    /\ pc = "streaming"
    /\ upState = "open"
    /\ Cost(Append(upChunks, lines)) <= MaxUpstreamLines
    /\ LET events == TransformLegacy(ChunkText(lines), Len(upChunks) + 1)
       IN  /\ out' = out \o events
           /\ wire' = wire \o Concat([i \in 1..Len(events) |-> events[i].bytes])
    /\ upChunks' = Append(upChunks, lines)
    /\ UNCHANGED elsewhere
    /\ UNCHANGED <<method, body, apiKey, pc, resp, fetchCalls, upStatus, upState, outState,
                   aborted, clientGone, buffer>>

LegacyChunk ==
    \E lines \in LineLists(UpstreamLines, MaxUpstreamLines - Cost(upChunks)) :
        LegacyDeliver(lines)

NextLegacy ==
    \/ HandleRequest
    \/ LegacyFetchRejects
    \/ LegacyFetchNotOk
    \/ FetchOk
    \/ LegacyChunk
    \/ UpstreamClose
    \/ UpstreamError

SpecLegacy == Init /\ [][NextLegacy]_vars

\* ------------------------------------------------- two requests at a time

\* The state of the first request.
relayVars == <<method, body, apiKey, pc, resp, fetchCalls, upStatus, upState, upChunks,
               out, outState, aborted, clientGone, wire, buffer>>

\* The lines the completion service sends to either request.
ConcurrentLines == ContentLines \cup {DoneLine, TruncatedLine}

\* Lines both requests may still receive.
LinesLeft == MaxUpstreamLines - Cost(upChunks) - Cost(peer.upChunks)

\* The first request receives a chunk while the second is under way.
ConcurrentChunk ==
    \E lines \in LineLists(ConcurrentLines, LinesLeft) : Deliver(lines)

\* The second request's fetch resolves with a status that is not ok.
PeerFetchNotOk ==
    /\ peer.pc = "fetching"
    /\ \E status \in UpstreamStatuses, errorText \in UpstreamErrorTexts :
           peer' = [peer EXCEPT !.pc = "done", !.upStatus = "notok", !.upState = "closed",
                                !.out = CatchStream(ApiErrorMessage(status, errorText)).events,
                                !.outState = CatchStream(ApiErrorMessage(status, errorText)).state]
    /\ UNCHANGED <<relayVars, estimate, clientVars>>

\* The second request's fetch resolves ok.
PeerFetchOk ==
    /\ peer.pc = "fetching"
    /\ peer' = [peer EXCEPT !.pc = "streaming", !.upStatus = "ok", !.upState = "open",
                            !.outState = "open"]
    /\ UNCHANGED <<relayVars, estimate, clientVars>>

\* A transform that enqueues on a controller the two requests share.
PeerDeliverSharedController(lines) ==
    /\ peer.pc = "streaming"
    /\ peer.upState = "open"
    /\ LET events == Transform(ChunkText(lines), Len(peer.upChunks) + 1)
       IN  /\ out' = out \o events
           /\ wire' = wire \o Concat([i \in 1..Len(events) |-> events[i].bytes])
    /\ peer' = [peer EXCEPT !.upChunks = Append(@, lines)]
    /\ UNCHANGED <<method, body, apiKey, pc, resp, fetchCalls, upStatus, upState, upChunks,
                   outState, aborted, clientGone, buffer, estimate, clientVars>>

\* The pipe of the second request hands a chunk to that request's transform.
PeerDeliver(lines) ==
    /\ peer.pc = "streaming"
    /\ peer.upState = "open"
    /\ peer' = [peer EXCEPT
                    !.out = @ \o Transform(ChunkText(lines), Len(peer.upChunks) + 1),
                    !.upChunks = Append(@, lines)]
    /\ UNCHANGED <<relayVars, estimate, clientVars>>

PeerChunk ==
    \E lines \in LineLists(ConcurrentLines, LinesLeft) : PeerDeliver(lines)

\* The second request's upstream body ends.
PeerClose ==
    /\ peer.pc = "streaming"
    /\ peer.upState = "open"
    /\ peer' = [peer EXCEPT !.pc = "done", !.upState = "closed", !.outState = "closed"]
    /\ UNCHANGED <<relayVars, estimate, clientVars>>

\* The second request's upstream body errors.
PeerError ==
    /\ peer.pc = "streaming"
    /\ peer.upState = "open"
    /\ peer' = [peer EXCEPT !.pc = "done", !.upState = "errored", !.outState = "errored"]
    /\ UNCHANGED <<relayVars, estimate, clientVars>>

\* Two requests with jobData, each waiting for its fetch.
InitConcurrent ==
    /\ method = "POST"
    /\ body = "{jobData:{...}}"
    /\ apiKey = TRUE
    /\ pc = "fetching"
    /\ resp = NoResponse
    /\ fetchCalls = 1
    /\ upStatus = "none"
    /\ upState = "pending"
    /\ upChunks = <<>>
    /\ out = <<>>
    /\ outState = "none"
    /\ aborted = FALSE
    /\ clientGone = FALSE
    /\ wire = <<>>
    /\ buffer = <<>>
    /\ estimate = Unresolved
    /\ peer = [pc |-> "fetching", upStatus |-> "none", upState |-> "pending",
               upChunks |-> <<>>, out |-> <<>>, outState |-> "none"]
    /\ ClientMounted

NextConcurrent ==
    \/ FetchNotOk
    \/ FetchOk
    \/ ConcurrentChunk
    \/ UpstreamClose
    \/ UpstreamError
    \/ PeerFetchNotOk
    \/ PeerFetchOk
    \/ PeerChunk
    \/ PeerClose
    \/ PeerError

SpecConcurrent == InitConcurrent /\ [][NextConcurrent]_vars

\* --------------------------------------------------------------- the client

\* err.message of a failed fetch: fetch rejects; the response is not ok and
\* its JSON body has an error field, or none; response.json() rejects.
FailureMessages ==
    {"Failed to fetch", "Internal error", "Failed to estimate salary", "Unexpected token"}
ExtractFailureMessages == {"Failed to fetch", "Failed to extract job data"}

\* handleSubmit and extractJobData up to the await of fetch.  The Analyze
\* button is disabled while isLoading; the input is required to hold a URL.
Submit ==
    /\ ~isLoading
    /\ started < MaxClientRequests
    /\ isLoading' = TRUE
    /\ isEstimating' = FALSE
    /\ salaryEstimate' = NoEstimate
    /\ error' = ""
    /\ started' = started + 1
    /\ pending' = pending \cup {[id |-> started + 1, kind |-> "extract", job |-> NullJob]}
    /\ last' = [act |-> "Submit", req |-> started + 1, msg |-> "", jobBefore |-> jobData]
    /\ UNCHANGED jobData
    /\ UNCHANGED <<relayVars, estimate, peer>>

\* extractJobData after the await: the response is ok, result.data is the
\* job of this extraction.
ExtractOk ==
    /\ \E r \in pending :
           /\ r.kind = "extract"
           /\ jobData' = r.id
           /\ pending' = pending \ {r}
           /\ last' = [act |-> "ExtractOk", req |-> r.id, msg |-> "", jobBefore |-> jobData]
    /\ isLoading' = FALSE
    /\ UNCHANGED <<salaryEstimate, isEstimating, error, started>>
    /\ UNCHANGED <<relayVars, estimate, peer>>

\* extractJobData after the await: something threw.
ExtractFail ==
    /\ \E r \in pending, message \in ExtractFailureMessages :
           /\ r.kind = "extract"
           /\ error' = message
           /\ pending' = pending \ {r}
           /\ last' = [act |-> "ExtractFail", req |-> r.id, msg |-> message,
                       jobBefore |-> jobData]
    /\ jobData' = NullJob
    /\ isLoading' = FALSE
    /\ UNCHANGED <<salaryEstimate, isEstimating, started>>
    /\ UNCHANGED <<relayVars, estimate, peer>>

\* estimateSalary up to the await of fetch.  The button is rendered when
\* jobData && !salaryEstimate and is disabled while isEstimating.
ClickEstimate ==
    /\ jobData # NullJob
    /\ ~salaryEstimate.present
    /\ ~isEstimating
    /\ started < MaxClientRequests
    /\ isEstimating' = TRUE
    /\ salaryEstimate' = NoEstimate
    /\ error' = ""
    /\ started' = started + 1
    /\ pending' = pending \cup {[id |-> started + 1, kind |-> "estimate", job |-> jobData]}
    /\ last' = [act |-> "ClickEstimate", req |-> started + 1, msg |-> "",
                jobBefore |-> jobData]
    /\ UNCHANGED <<jobData, isLoading>>
    /\ UNCHANGED <<relayVars, estimate, peer>>

\* estimateSalary after the await: the response is ok and parses;
\* result.data is the estimate for the job the request was sent with.
EstimateOk ==
    /\ \E r \in pending :
           /\ r.kind = "estimate"
           /\ salaryEstimate' = [present |-> TRUE, job |-> r.job, req |-> r.id]
           /\ pending' = pending \ {r}
           /\ last' = [act |-> "EstimateOk", req |-> r.id, msg |-> "", jobBefore |-> jobData]
    /\ isEstimating' = FALSE
    /\ UNCHANGED <<jobData, isLoading, error, started>>
    /\ UNCHANGED <<relayVars, estimate, peer>>

\* An estimateSalary whose failure path lacks the finally block.
EstimateFailNoFinally ==
    /\ \E r \in pending, message \in FailureMessages :
           /\ r.kind = "estimate"
           /\ error' = message
           /\ pending' = pending \ {r}
           /\ last' = [act |-> "EstimateFail", req |-> r.id, msg |-> message,
                       jobBefore |-> jobData]
    /\ UNCHANGED <<jobData, salaryEstimate, isLoading, isEstimating, started>>
    /\ UNCHANGED <<relayVars, estimate, peer>>

\* estimateSalary after the await: fetch rejected, the response was not ok,
\* or its body did not parse.
EstimateFail ==
    /\ \E r \in pending, message \in FailureMessages :
           /\ r.kind = "estimate"
           /\ error' = message
           /\ pending' = pending \ {r}
           /\ last' = [act |-> "EstimateFail", req |-> r.id, msg |-> message,
                       jobBefore |-> jobData]
    /\ isEstimating' = FALSE
    /\ UNCHANGED <<jobData, salaryEstimate, isLoading, started>>
    /\ UNCHANGED <<relayVars, estimate, peer>>

\* The component mounted; no request at the relay.
InitClient ==
    /\ method = "POST"
    /\ body = "{jobData:{...}}"
    /\ apiKey = TRUE
    /\ pc = "start"
    /\ resp = NoResponse
    /\ fetchCalls = 0
    /\ upStatus = "none"
    /\ upState = "none"
    /\ upChunks = <<>>
    /\ out = <<>>
    /\ outState = "none"
    /\ aborted = FALSE
    /\ clientGone = FALSE
    /\ wire = <<>>
    /\ buffer = <<>>
    /\ NothingElse

NextClient ==
    \/ Submit
    \/ ExtractOk
    \/ ExtractFail
    \/ ClickEstimate
    \/ EstimateOk
    \/ EstimateFail

SpecClient == InitClient /\ [][NextClient]_vars

\* Every fetch that was started resolves or rejects in the end.
FetchesSettle ==
    /\ WF_vars(ExtractOk \/ ExtractFail)
    /\ WF_vars(EstimateOk \/ EstimateFail)

SpecClientFair == SpecClient /\ FetchesSettle

\* --------------------------------------------------- the growing buffer

\* The characters of a payload: text, the delimiter's character, a blank.
PayloadChars == {"1", ";", " "}

\* The consumer appends payload text to its buffer and re-runs the parser on
\* the whole buffer.
BufferGrows ==
    /\ Len(buffer) < MaxBufferLen
    /\ \E t \in PayloadChars :
           /\ buffer' = Append(buffer, t)
           /\ estimate' = Parse(Append(buffer, t))
    /\ UNCHANGED <<peer, clientVars>>
    /\ UNCHANGED <<method, body, apiKey, pc, resp, fetchCalls, upStatus, upState, upChunks,
                   out, outState, aborted, clientGone, wire>>

InitParser == InitConsumer

NextParser == BufferGrows

SpecParser == InitParser /\ [][NextParser]_vars

\* ------------------------------------------------------ what was received

RECURSIVE Flatten(_)
Flatten(chunks) == IF chunks = <<>> THEN <<>> ELSE Head(chunks) \o Flatten(Tail(chunks))

\* Every upstream line received so far, in the order received.
ReceivedLines == Flatten(upChunks)

\* The fragment a content frame carries.
FragmentOf(line) == CHOOSE f \in Fragments : ContentLine(f) = line

RECURSIVE FragmentsOf(_)
\* The fragments of the content frames among these lines, in order.
FragmentsOf(lines) ==
    IF lines = <<>> THEN <<>>
    ELSE (IF Head(lines) \in ContentLines THEN <<FragmentOf(Head(lines))>> ELSE <<>>)
         \o FragmentsOf(Tail(lines))

\* The fragment an event of the response carries: its bytes without the
\* data prefix and the two line feeds.
EventFragment(e) == SubSeq(e.bytes, Len(DataPrefix) + 1, Len(e.bytes) - 2)

EmittedFragments == [i \in 1..Len(out) |-> EventFragment(out[i])]

\* Upstream position p is before position q.
Before(p, q) == p[1] < q[1] \/ (p[1] = q[1] /\ p[2] < q[2])

Positions == {<<c, l>> : c \in 1..Len(upChunks), l \in 1..MaxUpstreamLines}
ValidPositions == {p \in Positions : p[2] <= Len(upChunks[p[1]])}
LineAt(p) == upChunks[p[1]][p[2]]
Emitted(p) == \E i \in 1..Len(out) : out[i].kind = "fragment" /\ out[i].src = p

\* ------------------------------------------------------------------ claims

\* The upstream so far is content frames followed by the sentinel frame.
CompleteUpstream ==
    /\ upStatus = "ok"
    /\ ReceivedLines # <<>>
    /\ \A i \in 1..Len(ReceivedLines) :
           IF i = Len(ReceivedLines) THEN ReceivedLines[i] = DoneLine
           ELSE ReceivedLines[i] \in ContentLines

\* C1: for content frames followed by the sentinel, however grouped into
\* chunks, the relay emits one event per content frame and the emitted
\* fragments concatenate to the concatenation of the upstream fragments.
C1_EveryContentFrameRelayed ==
    CompleteUpstream =>
        /\ Len(out) = Len(FragmentsOf(ReceivedLines))
        /\ Concat(EmittedFragments) = Concat(FragmentsOf(ReceivedLines))

\* C2: the fragment events are in the order of the upstream content frames
\* they come from, within a chunk and across chunks; each event carries the
\* fragment of the frame it comes from.
C2_EventsInUpstreamOrder ==
    /\ \A i \in 1..Len(out) : out[i].kind = "fragment" =>
           /\ out[i].src \in ValidPositions
           /\ LineAt(out[i].src) \in ContentLines
           /\ EventFragment(out[i]) = FragmentOf(LineAt(out[i].src))
    /\ \A i, j \in 1..Len(out) :
           (i < j /\ out[i].kind = "fragment" /\ out[j].kind = "fragment")
               => Before(out[i].src, out[j].src)

\* Three events: two from one chunk, in different fragments, and one from a
\* later chunk.
C2_Witness ==
    /\ Len(out) = 3
    /\ out[1].src[1] = out[2].src[1]
    /\ out[2].src[1] < out[3].src[1]
    /\ EventFragment(out[1]) # EventFragment(out[2])

\* C3: a malformed frame line produces no event and suppresses no valid
\* frame: every content frame received after it, in the same chunk or in a
\* later one, is emitted.
C3_ValidFrameAfterMalformedEmitted ==
    \A p \in ValidPositions : LineAt(p) \in MalformedLines =>
        /\ ~Emitted(p)
        /\ \A q \in ValidPositions :
               (Before(p, q) /\ LineAt(q) \in ContentLines) => Emitted(q)

\* C4: when the completion service answers with a non-success status, the
\* handler responds with status 500 and a JSON body whose error embeds the
\* upstream status and error body, not with a 200 event stream.
C4_UpstreamRejectionIs500 ==
    (upStatus = "notok" /\ pc = "done") =>
        /\ resp.status = 500
        /\ resp.contentType = "application/json"
        /\ \E status \in UpstreamStatuses, errorText \in UpstreamErrorTexts :
               resp.error = ApiErrorMessage(status, errorText)

\* C5: when the upstream body fails after the response has started
\* streaming, the response ends with an in-band error event as its last
\* item and is then closed.
C5_MidStreamFailureEndsWithErrorEvent ==
    (upStatus = "ok" /\ upState = "errored") =>
        /\ outState = "closed"
        /\ out # <<>>
        /\ out[Len(out)].kind = "error"

\* C6: once the client has disconnected, the abort signal passed to the
\* upstream fetch is triggered by the time the request is over.
C6_DisconnectAbortsUpstream ==
    (clientGone /\ pc = "done") => aborted

\* C7: a POST whose body has no jobData (absent or falsy) is answered with
\* status 400 and a JSON body with an error field, and no call to the
\* completion service is made.
C7_MissingJobDataIs400 ==
    (method = "POST" /\ body \in {"{}", "{jobData:null}", "{jobData:''}"}) =>
        /\ fetchCalls = 0
        /\ upState = "none"
        /\ pc = "done" =>
               /\ resp.status = 400
               /\ resp.body = "json"
               /\ resp.error # <<>>

C7_Witness ==
    /\ method = "POST"
    /\ body = "{jobData:''}"
    /\ pc = "done"
    /\ resp.status = 400

\* C8: without the credential, a request that carries jobData is answered
\* with status 500 and an error that names OPENAI_API_KEY, and no call to the
\* completion service is made.
C8_MissingKeyIs500 ==
    (method = "POST" /\ body = "{jobData:{...}}" /\ ~apiKey) =>
        /\ fetchCalls = 0
        /\ upState = "none"
        /\ pc = "done" =>
               /\ resp.status = 500
               /\ resp.body = "json"
               /\ \E i \in 1..Len(resp.error) : resp.error[i] = "OPENAI_API_KEY"

C8_Witness ==
    /\ method = "POST"
    /\ body = "{jobData:{...}}"
    /\ ~apiKey
    /\ pc = "done"
    /\ resp.status = 500

\* C9: an error event is the last event of the response stream, and the
\* stream is closed after it: no fragment event follows an error event.
C9_ErrorEventIsLast ==
    \A i \in 1..Len(out) : out[i].kind = "error" =>
        /\ i = Len(out)
        /\ outState = "closed"
        /\ pc = "done"

C9_Witness ==
    /\ out # <<>>
    /\ out[Len(out)].kind = "error"
    /\ StartsWith(out[Len(out)].bytes, DataPrefix \o <<"{\"error\":\"">>)
    /\ outState = "closed"

\* C10: once the consumer has read every byte of the response, in chunks
\* split anywhere, its buffer is the concatenation of the upstream content
\* fragments, line feeds inside fragments included.
C10_RoundTrip ==
    (wire = <<>> /\ outState = "closed") =>
        buffer = Concat(FragmentsOf(ReceivedLines))

\* A chunk that holds the sentinel frame.
HasSentinel(c) == \E l \in 1..Len(upChunks[c]) : upChunks[c][l] = DoneLine

\* C11: the sentinel is never forwarded as an event; receiving it does not
\* end the response, which stays open while the upstream body is open and is
\* closed only once the upstream body has closed; a chunk received after a
\* chunk with the sentinel is processed as any other: each of its content
\* frames is emitted.
C11_SentinelNeitherForwardedNorTerminal ==
    /\ \A i \in 1..Len(out) :
           /\ ~Includes(out[i].bytes, <<"[DONE]">>)
           /\ out[i].kind = "fragment" => LineAt(out[i].src) # DoneLine
    /\ (upStatus = "ok" /\ upState = "open") => (outState = "open" /\ pc = "streaming")
    /\ (upStatus = "ok" /\ outState = "closed") => upState = "closed"
    /\ \A c, d \in 1..Len(upChunks) :
           (c < d /\ HasSentinel(c) /\ ~HasSentinel(d)) =>
               \A l \in 1..Len(upChunks[d]) :
                   upChunks[d][l] \in ContentLines => Emitted(<<d, l>>)

\* The sentinel came in the first chunk, a content frame of a later chunk
\* was emitted, and the response is still open.
C11_Witness ==
    /\ Len(upChunks) >= 2
    /\ HasSentinel(1)
    /\ \E l \in 1..Len(upChunks[2]) : upChunks[2][l] \in ContentLines /\ Emitted(<<2, l>>)
    /\ outState = "open"
    /\ upState = "open"

\* C13: a request makes at most one call to the completion service; when
\* that call fails (it rejects, or answers with a status that is not ok) the
\* request is over with exactly one call made, and the failure is what the
\* response reports.
C13_AtMostOneUpstreamCall ==
    /\ fetchCalls <= 1
    /\ pc = "fetching" => fetchCalls = 1
    /\ upStatus \in {"rejected", "notok"} =>
           /\ fetchCalls = 1
           /\ pc = "done"
           /\ upState \in {"errored", "closed"}
           /\ Len(out) = 1
           /\ out[1].kind = "error"
    /\ (upStatus = "ok" /\ upState = "errored") => (fetchCalls = 1 /\ pc = "done")

C13_Witness ==
    /\ upStatus = "rejected"
    /\ fetchCalls = 1
    /\ pc = "done"
    /\ out = <<ErrorEvent(FetchFailed)>>

\* C14: every response of the handler (preflight, 400, 500, event stream)
\* carries Access-Control-Allow-Origin: * and an allow-headers list that
\* covers authorization, x-client-info, apikey and content-type.
C14_EveryResponseHasCors ==
    resp # NoResponse =>
        /\ resp.cors.origin = "*"
        /\ {"authorization", "x-client-info", "apikey", "content-type"}
               \subseteq resp.cors.allowHeaders

\* The 400 for a missing jobData, with the headers.
C14_Witness ==
    /\ resp.status = 400
    /\ resp.body = "json"
    /\ resp.cors.origin = "*"
    /\ "apikey" \in resp.cors.allowHeaders

\* The fragment events that come from chunk c, in the order emitted.
EventsOfChunk(c) ==
    LET FromChunk(e) == e.kind = "fragment" /\ e.src[1] = c
        events == SelectSeq(out, FromChunk)
    IN  [i \in 1..Len(events) |-> EventFragment(events[i])]

\* C20: every fragment event is the data prefix, the non-empty fragment of
\* one parseable content frame of the chunk it comes from, and two line
\* feeds; no frame line yields two events; blank lines, lines without the
\* prefix and frames without content yield none: the events of a chunk are
\* exactly the fragments of its content frames, or none when it holds the
\* sentinel.
C20_NothingFabricatedOrDuplicated ==
    /\ \A i \in 1..Len(out) : out[i].kind = "fragment" =>
           /\ out[i].src \in ValidPositions
           /\ LineAt(out[i].src) \in ContentLines
           /\ EventFragment(out[i]) # <<>>
           /\ out[i].bytes = DataPrefix \o FragmentOf(LineAt(out[i].src)) \o <<LF, LF>>
    /\ \A i, j \in 1..Len(out) :
           (out[i].kind = "fragment" /\ out[j].kind = "fragment" /\ out[i].src = out[j].src)
               => i = j
    /\ \A p \in ValidPositions :
           LineAt(p) \in {BareLine, RoleLine, EmptyContentLine} => ~Emitted(p)
    /\ \A c \in 1..Len(upChunks) :
           EventsOfChunk(c) = IF HasSentinel(c) THEN <<>> ELSE FragmentsOf(upChunks[c])

\* One chunk with a line without the prefix, a frame whose content is empty
\* and a content frame: one event.
C20_Witness ==
    /\ Len(upChunks) = 1
    /\ \E f \in Fragments : upChunks[1] = <<BareLine, EmptyContentLine, ContentLine(f)>>
    /\ Len(out) = 1
    /\ out[1].src = <<1, 3>>

\* The bytes of the events the relay emitted for chunk c, and of those the
\* transform of estimate-salary enqueues for the same chunk.
StreamBytes(c) ==
    LET FromChunk(e) == e.src[1] = c
        events == SelectSeq(out, FromChunk)
    IN  [i \in 1..Len(events) |-> events[i].bytes]
LegacyBytes(c) ==
    LET events == TransformLegacy(ChunkText(upChunks[c]), c)
    IN  [i \in 1..Len(events) |-> events[i].bytes]

\* The line has the data prefix and JSON.parse accepts the rest.
ParsesAsJson(line) ==
    StartsWith(line, DataPrefix) /\ ~JSONparse(Slice(line, Len(DataPrefix))).threw
\* A data line, other than the sentinel, that JSON.parse rejects.
Unparseable(line) ==
    /\ StartsWith(line, DataPrefix)
    /\ line # DoneLine
    /\ JSONparse(Slice(line, Len(DataPrefix))).threw

\* C19: the two transforms differ only on unparseable lines: a data line
\* that cannot be parsed is passed through by estimate-salary as the data
\* prefix and the raw remainder, and dropped by estimate-salary-stream; for a
\* chunk whose data lines all parse as JSON the two emit the same events.
C19_TransformsDifferOnlyOnUnparseable ==
    upStatus = "ok" =>
        \A c \in 1..Len(upChunks) :
            /\ (\A l \in 1..Len(upChunks[c]) :
                    StartsWith(upChunks[c][l], DataPrefix) => ParsesAsJson(upChunks[c][l]))
                   => StreamBytes(c) = LegacyBytes(c)
            /\ \A l \in 1..Len(upChunks[c]) : Unparseable(upChunks[c][l]) =>
                   /\ ~Emitted(<<c, l>>)
                   /\ \E e \in {TransformLegacy(ChunkText(upChunks[c]), c)[i] :
                                     i \in 1..Len(TransformLegacy(ChunkText(upChunks[c]), c))} :
                          /\ e.src = <<c, l>>
                          /\ e.bytes = DataPrefix \o Slice(upChunks[c][l], Len(DataPrefix))
                                           \o <<LF, LF>>

RECURSIVE DelimitersSeen(_)
\* How many delimiters the text holds in full, read from the left.
DelimitersSeen(text) ==
    IF Len(text) < 2 THEN 0
    ELSE IF text[1] = ";" /\ text[2] = ";" THEN 1 + DelimitersSeen(Slice(text, 2))
    ELSE DelimitersSeen(Tail(text))

\* The text is a prefix of a well-formed `range ;; confidence ;; reasoning`
\* string: at most two delimiters, and text before each.
PrefixOfWellFormed(text) ==
    LET parts == SplitOn(text, Delimiter, <<>>)
    IN  /\ Len(parts) <= 3
        /\ \A i \in 1..(Len(parts) - 1) : NotBlank(parts[i])

\* C17: for a buffer that is a prefix of a well-formed string, the parser
\* populates exactly the fields whose delimiter has been seen in full:
\* salaryRange, which no delimiter precedes, once the buffer holds text;
\* confidenceLevel once the first delimiter is complete; reasoning once the
\* second is.  For every buffer, a field is populated only if the field
\* before it is.
C17_FieldsFollowDelimiters ==
    /\ estimate = Parse(buffer)
    /\ PrefixOfWellFormed(buffer) =>
           /\ estimate.salaryRange.set <=> NotBlank(buffer)
           /\ estimate.confidenceLevel.set <=> DelimitersSeen(buffer) >= 1
           /\ estimate.reasoning.set <=> DelimitersSeen(buffer) >= 2
    /\ estimate.confidenceLevel.set => estimate.salaryRange.set
    /\ estimate.reasoning.set => estimate.confidenceLevel.set

\* The second delimiter is half seen: two fields populated, not the third.
C17_Witness ==
    /\ buffer = <<"1", ";", ";", "1", ";">>
    /\ estimate.salaryRange.set
    /\ estimate.confidenceLevel.set
    /\ ~estimate.reasoning.set

\* C18: a field populated by the parse of a prefix of the buffer is populated
\* by the parse of the buffer, whatever was appended; an empty or
\* whitespace-only buffer parses to the all-unresolved result.
C18_FieldsNeverUnset ==
    /\ estimate = Parse(buffer)
    /\ \A n \in 0..Len(buffer) :
           LET before == Parse(SubSeq(buffer, 1, n))
           IN  /\ before.salaryRange.set => estimate.salaryRange.set
               /\ before.confidenceLevel.set => estimate.confidenceLevel.set
               /\ before.reasoning.set => estimate.reasoning.set
    /\ ~NotBlank(buffer) => estimate = Unresolved

\* All three fields were populated and text, delimiters included, was
\* appended after that.
C18_Witness ==
    /\ Len(buffer) = MaxBufferLen
    /\ Parse(SubSeq(buffer, 1, 5)).reasoning.set
    /\ DelimitersSeen(buffer) > DelimitersSeen(SubSeq(buffer, 1, 5))
    /\ estimate.reasoning.set

RECURSIVE Derived(_, _)
\* The events that follow from these upstream chunks, from chunk c on.
Derived(chunks, c) ==
    IF c > Len(chunks) THEN <<>>
    ELSE Transform(ChunkText(chunks[c]), c) \o Derived(chunks, c + 1)

HasError(events) == \E i \in 1..Len(events) : events[i].kind = "error"

\* C12: with two requests relayed at the same time, under every interleaving
\* of their chunks, the response of each holds exactly the events that follow
\* from that request's own upstream chunks, in their order, and an error
\* event only if that request's own call failed.
C12_RequestsIndependent ==
    /\ upStatus = "ok" => out = Derived(upChunks, 1)
    /\ peer.upStatus = "ok" => peer.out = Derived(peer.upChunks, 1)
    /\ upStatus = "none" => out = <<>>
    /\ peer.upStatus = "none" => peer.out = <<>>
    /\ HasError(out) <=> upStatus \in {"notok", "rejected"}
    /\ HasError(peer.out) <=> peer.upStatus \in {"notok", "rejected"}
    /\ upStatus \in {"notok", "rejected"} => Len(out) = 1
    /\ peer.upStatus \in {"notok", "rejected"} => Len(peer.out) = 1

\* Both requests stream; each has received chunks, with different frames,
\* and has emitted its own.
C12_Witness ==
    /\ pc = "streaming"
    /\ peer.pc = "streaming"
    /\ Len(upChunks) = 2
    /\ Len(peer.upChunks) = 1
    /\ Len(out) = 2
    /\ Len(peer.out) = 1
    /\ \A i \in 1..2 : out[i].bytes # peer.out[1].bytes

\* C15: when an estimation has just failed, error holds the failure's
\* message, isEstimating is false, salaryEstimate is null and jobData is what
\* it was before.
C15_EstimationFailureCaught ==
    last.act = "EstimateFail" =>
        /\ error = last.msg
        /\ error # ""
        /\ ~isEstimating
        /\ salaryEstimate = NoEstimate
        /\ jobData = last.jobBefore

\* C16: while any request of the client is pending, salaryEstimate is null:
\* no result of an earlier request is shown while a newer one is under way.
C16_EstimateNullWhilePending ==
    pending # {} => salaryEstimate = NoEstimate

\* A frame is split over the boundary after chunk c: the chunk ends with the
\* frame's first half and the next begins with its second half.
SplitAfter(chunks, c) ==
    /\ c >= 1
    /\ c < Len(chunks)
    /\ chunks[c] # <<>>
    /\ chunks[c + 1] # <<>>
    /\ chunks[c][Len(chunks[c])] = TruncatedLine
    /\ chunks[c + 1][1] = BareLine

\* The chunks without the halves of the frames split over their boundaries.
WithoutSplitFrames(chunks) ==
    [c \in 1..Len(chunks) |->
        SubSeq(chunks[c],
               IF SplitAfter(chunks, c - 1) THEN 2 ELSE 1,
               Len(chunks[c]) - (IF SplitAfter(chunks, c) THEN 1 ELSE 0))]

BytesOf(events) == [i \in 1..Len(events) |-> events[i].bytes]

\* C21: the events emitted for a sequence of chunks are the concatenation of
\* the events of each chunk taken alone; neither half of a frame split over a
\* chunk boundary yields an event, and the response is what it would be
\* without the two halves: no complete frame is lost because of them.
C21_NoStateBetweenChunks ==
    upStatus = "ok" =>
        /\ out = Derived(upChunks, 1)
        /\ \A c \in 1..Len(upChunks) : SplitAfter(upChunks, c) =>
               /\ ~Emitted(<<c, Len(upChunks[c])>>)
               /\ ~Emitted(<<c + 1, 1>>)
        /\ BytesOf(out) = BytesOf(Derived(WithoutSplitFrames(upChunks), 1))

\* A frame split over the first boundary, and the complete frame after its
\* second half emitted.
C21_Witness ==
    /\ Len(upChunks) = 2
    /\ SplitAfter(upChunks, 1)
    /\ Len(upChunks[2]) = 2
    /\ upChunks[2][2] \in ContentLines
    /\ Len(out) = 1
    /\ out[1].src = <<2, 2>>

\* C22: in estimate-salary, when the upstream call has failed the client
\* gets the failure's message: the response is an HTTP error with a JSON
\* error body, or a stream that holds a `data: {"error": ...}` event; it is
\* never a successful stream without one.
C22_LegacyFailureReachesClient ==
    (upStatus \in {"rejected", "notok"} /\ pc = "done") =>
        \/ /\ resp.status >= 400
           /\ resp.body = "json"
           /\ resp.error # <<>>
        \/ /\ resp.body = "stream"
           /\ \E i \in 1..Len(out) : StartsWith(out[i].bytes, DataPrefix \o <<ErrorOpen>>)

\* C23: a salary estimate held in state was computed from the jobData held
\* in state.
C23_EstimateBelongsToJob ==
    salaryEstimate.present => salaryEstimate.job = jobData

EstimationsInFlight == {r \in pending : r.kind = "estimate"}

\* C24: at most one estimation is in flight, and isEstimating is true while
\* one is: the Estimate Salary button is never enabled while an earlier
\* estimation is pending.
C24_OneEstimationInFlight ==
    /\ Cardinality(EstimationsInFlight) <= 1
    /\ EstimationsInFlight # {} => isEstimating
    /\ EstimationsInFlight # {} =>
           ~(jobData # NullJob /\ ~salaryEstimate.present /\ ~isEstimating)

IsPending(id) == \E r \in pending : r.id = id

\* C25: if every fetch settles, every request of the client settles, a
\* loading flag that is up comes down, the flag of a request is down when
\* the request has just settled, succeeded or failed, and both flags are
\* down whenever no request is pending.
C25_NeverStuckLoading ==
    /\ \A id \in 1..MaxClientRequests : IsPending(id) ~> ~IsPending(id)
    /\ isLoading ~> ~isLoading
    /\ isEstimating ~> ~isEstimating
    /\ [](last.act \in {"ExtractOk", "ExtractFail"} => ~isLoading)
    /\ [](last.act \in {"EstimateOk", "EstimateFail"} => ~isEstimating)
    /\ [](pending = {} => (~isLoading /\ ~isEstimating))

\* An extraction succeeded, then an estimation failed; nothing is pending
\* and no flag is up.
C25_Witness ==
    /\ last.act = "EstimateFail"
    /\ jobData # NullJob
    /\ pending = {}
    /\ ~isLoading
    /\ ~isEstimating

====
